---- MODULE Spec2Model ----
(***************************************************************************)
(* Model of server/server.go of vili: the admin HTTP front-end.            *)
(*                                                                         *)
(* Two specifications share the module:                                    *)
(*   Spec      request handling: the health endpoint of the admin routes,  *)
(*             routes whose handler returns an error or panics, and the    *)
(*             error translator httpErrorHandler;                          *)
(*   SpecLife  the lifecycle: Start, StartTest, Stop, StopTest and the     *)
(*             shutdown sequence of the graceful server Start builds.      *)
(***************************************************************************)
EXTENDS Integers, Sequences, FiniteSets

VARIABLES debug, hcFunc, last, prev,
          cTimeout, cHook, g, gTimeout, interrupt, interrupted, trigger,
          hookState, hookCalls, t, orphans, conn, remaining, remAtDrain,
          deadline, elapsed

reqVars  == <<debug, hcFunc, last, prev>>
lifeVars == <<cTimeout, cHook, g, gTimeout, interrupt, interrupted, trigger,
              hookState, hookCalls, t, orphans, conn, remaining, remAtDrain,
              deadline, elapsed>>
vars     == <<reqVars, lifeVars>>

----------------------------------------------------------------------------
(* Bounds of the model. *)

MaxMsg == 2
MaxTimeout == 6
MaxDur == 7
MaxOrphans == 1

Msgs == 1..MaxMsg

----------------------------------------------------------------------------
(* Status codes used by the handlers. *)

StatusOK == 200
StatusNoContent == 204
StatusBadRequest == 400
StatusNotFound == 404
StatusMethodNotAllowed == 405
StatusInternalServerError == 500
StatusNotImplemented == 501

----------------------------------------------------------------------------
(* Error values.  The dynamic type of an error is one of the three types   *)
(* the type switch of httpErrorHandler names, or any other type.           *)

NoErr == [type |-> "nil", code |-> 0, msg |-> 0]

StatusError(code, m) == [type |-> "StatusError", code |-> code, msg |-> m]

ErrorResponseErr(code, m) == [type |-> "ErrorResponse", code |-> code, msg |-> m]

NewHTTPError(code, m) == [type |-> "HTTPError", code |-> code, msg |-> m]

OtherError(m) == [type |-> "Other", code |-> 0, msg |-> m]

UpstreamCodes == {409}
DomainCodes == {403, 422}
FrameworkCodes == {400, 404, 405, 500}

Errors ==
    {StatusError(c, m) : c \in UpstreamCodes, m \in Msgs}
    \cup {ErrorResponseErr(c, m) : c \in DomainCodes, m \in Msgs}
    \cup {NewHTTPError(c, m) : c \in FrameworkCodes, m \in Msgs}
    \cup {OtherError(m) : m \in Msgs}

(* Body chunks.  Every text or JSON value written to a response is a       *)
(* record of the same shape, so that two bodies are comparable.            *)

Chunk(kind, code, m) == [kind |-> kind, code |-> code, msg |-> m]

(* http.StatusText(code): depends on the code only. *)
StatusText(code) == Chunk("StatusText", code, 0)

(* err.Error(): echo's HTTPError formats "code=<Code>, message=<Message>"; *)
(* any other error yields its own text.                                    *)
ErrorText(err) ==
    IF err.type = "HTTPError"
    THEN Chunk("code=,message=", err.code, err.msg)
    ELSE Chunk("error", 0, err.msg)

(* The JSON encodings the translator writes. *)
StatusJSON(e) == Chunk("kubeStatus", e.code, e.msg)
ErrorResponseJSON(e) == Chunk("errorResponse", e.code, e.msg)
NotFoundJSON == Chunk("errors.NotFound", StatusNotFound, 0)
MethodNotAllowedJSON == Chunk("errors.MethodNotAllowed", StatusMethodNotAllowed, 0)

----------------------------------------------------------------------------
(* The response of echo.  Status is 0 until a header is written.           *)

NewResponse == [Committed |-> FALSE, Status |-> 0, body |-> <<>>]

(* Response.WriteHeader: a committed response keeps its status. *)
WriteHeader(r, code) ==
    IF r.Committed THEN r
    ELSE [r EXCEPT !.Committed = TRUE, !.Status = code]

(* Response.Write: commits with 200 when nothing was committed, then       *)
(* writes the bytes, committed or not.                                     *)
Write(r, b) ==
    LET r1 == IF r.Committed THEN r ELSE WriteHeader(r, StatusOK)
    IN [r1 EXCEPT !.body = Append(r1.body, b)]

(* c.JSON(code, v): header, then the encoded value. *)
JSON(r, code, v) == Write(WriteHeader(r, code), v)

(* c.NoContent(code): header only. *)
NoContent(r, code) == WriteHeader(r, code)

(* http.Error(w, msg, code): header, then the message. *)
HttpError(r, m, code) == Write(WriteHeader(r, code), m)

----------------------------------------------------------------------------
(* The error translator.                                                   *)
(*                                                                         *)
(* Its result is the response it leaves, the ordered trace of its effects  *)
(* (log.Error, c.JSON, http.Error) and the status code it decided on.      *)

Effect(op, code) == [op |-> op, code |-> code]

Translated(r, trace, code) == [resp |-> r, trace |-> trace, code |-> code]

(* ErrorResponse(c, e): the error renders itself, status and JSON body. *)
ErrorResponse(r, e) ==
    Translated(JSON(r, e.code, ErrorResponseJSON(e)),
               <<Effect("JSON", e.code)>>, e.code)

(* WriteError without lines 116-119: the message of an HTTPError is not    *)
(* substituted for the status text.                                        *)
WriteErrorStatusTextOnly(err, r, dbg, code0, trace0) ==
    LET msg0  == StatusText(code0)
        isHE  == err.type = "HTTPError"
        code1 == IF isHE THEN err.code ELSE code0
        msg2  == IF dbg THEN ErrorText(err) ELSE msg0
    IN IF ~r.Committed
       THEN Translated(HttpError(r, msg2, code1),
                       Append(trace0, Effect("http.Error", code1)), code1)
       ELSE Translated(r, trace0, code1)

(* WriteError without lines 120-122: the debug flag is not read. *)
WriteErrorNoDebug(err, r, dbg, code0, trace0) ==
    LET msg0  == StatusText(code0)
        isHE  == err.type = "HTTPError"
        code1 == IF isHE THEN err.code ELSE code0
        msg1  == IF isHE THEN ErrorText(err) ELSE msg0
    IN IF ~r.Committed
       THEN Translated(HttpError(r, msg1, code1),
                       Append(trace0, Effect("http.Error", code1)), code1)
       ELSE Translated(r, trace0, code1)

(* Lines 115-125: the tail every path that did not return reaches. *)
WriteError(err, r, dbg, code0, trace0) ==
    LET msg0  == StatusText(code0)
        isHE  == err.type = "HTTPError"
        code1 == IF isHE THEN err.code ELSE code0
        msg1  == IF isHE THEN ErrorText(err) ELSE msg0
        msg2  == IF dbg THEN ErrorText(err) ELSE msg1
    IN IF ~r.Committed
       THEN Translated(HttpError(r, msg2, code1),
                       Append(trace0, Effect("http.Error", code1)), code1)
       ELSE Translated(r, trace0, code1)

(* httpErrorHandler answering a StatusError with the code the upstream     *)
(* status carries instead of 400.                                          *)
httpErrorHandlerUpstreamCode(err, r, dbg) ==
    IF err.type = "StatusError"
    THEN Translated(JSON(r, err.code, StatusJSON(err)),
                    <<Effect("JSON", err.code)>>, err.code)
    ELSE IF err.type = "ErrorResponse"
    THEN ErrorResponse(r, err)
    ELSE IF err.type = "HTTPError"
    THEN IF err.code = StatusNotFound
         THEN Translated(JSON(r, err.code, NotFoundJSON),
                         <<Effect("JSON", err.code)>>, err.code)
         ELSE IF err.code = StatusMethodNotAllowed
         THEN Translated(JSON(r, err.code, MethodNotAllowedJSON),
                         <<Effect("JSON", err.code)>>, err.code)
         ELSE WriteError(err, r, dbg, err.code, <<>>)
    ELSE WriteError(err, r, dbg, StatusInternalServerError,
                    <<Effect("log.Error", 0)>>)

(* httpErrorHandler logging every error that reaches lines 115-125, as     *)
(* echo's own default handler of the time did.                             *)
httpErrorHandlerLogsHTTPError(err, r, dbg) ==
    IF err.type = "StatusError"
    THEN Translated(JSON(r, StatusBadRequest, StatusJSON(err)),
                    <<Effect("JSON", StatusBadRequest)>>, StatusBadRequest)
    ELSE IF err.type = "ErrorResponse"
    THEN ErrorResponse(r, err)
    ELSE IF err.type = "HTTPError"
    THEN IF err.code = StatusNotFound
         THEN Translated(JSON(r, err.code, NotFoundJSON),
                         <<Effect("JSON", err.code)>>, err.code)
         ELSE IF err.code = StatusMethodNotAllowed
         THEN Translated(JSON(r, err.code, MethodNotAllowedJSON),
                         <<Effect("JSON", err.code)>>, err.code)
         ELSE WriteError(err, r, dbg, err.code, <<Effect("log.Error", 0)>>)
    ELSE WriteError(err, r, dbg, StatusInternalServerError,
                    <<Effect("log.Error", 0)>>)

(* The type switch tests the dynamic type against its cases in order. *)
httpErrorHandler(err, r, dbg) ==
    IF err.type = "StatusError"
    THEN Translated(JSON(r, StatusBadRequest, StatusJSON(err)),
                    <<Effect("JSON", StatusBadRequest)>>, StatusBadRequest)
    ELSE IF err.type = "ErrorResponse"
    THEN ErrorResponse(r, err)
    ELSE IF err.type = "HTTPError"
    THEN IF err.code = StatusNotFound
         THEN Translated(JSON(r, err.code, NotFoundJSON),
                         <<Effect("JSON", err.code)>>, err.code)
         ELSE IF err.code = StatusMethodNotAllowed
         THEN Translated(JSON(r, err.code, MethodNotAllowedJSON),
                         <<Effect("JSON", err.code)>>, err.code)
         ELSE WriteError(err, r, dbg, err.code, <<>>)
    ELSE WriteError(err, r, dbg, StatusInternalServerError,
                    <<Effect("log.Error", 0)>>)

----------------------------------------------------------------------------
(* Handlers.  A handler's result is the response it leaves, the error it   *)
(* returns and how many times it called the health-check callback.         *)

Handled(r, err, calls) == [resp |-> r, err |-> err, calls |-> calls]

(* makeHealthCheck with the 501 error of line 136 built and dropped, as    *)
(* line 141 drops its error.                                               *)
makeHealthCheckDropsNotImplemented(hc, r, m) ==
    Handled(NoContent(r, StatusNoContent), NoErr, IF hc = "nil" THEN 0 ELSE 1)

(* makeHealthCheck(hcFunc): hc is "nil", "ok" or "fail"; m is the text of  *)
(* the error a failing callback returns.  Message 0 is the literal         *)
(* "Not Implemented".                                                      *)
makeHealthCheck(hc, r, m) ==
    IF hc = "nil"
    THEN Handled(r, NewHTTPError(StatusNotImplemented, 0), 0)
    ELSE LET err   == IF hc = "fail" THEN OtherError(m) ELSE NoErr
             \* line 141: the error is built and dropped
             built == IF err # NoErr
                      THEN NewHTTPError(StatusInternalServerError, err.msg)
                      ELSE NoErr
         IN Handled(NoContent(r, StatusNoContent), NoErr, 1)

(* What echo does with a handler's result: a non-nil error goes to the    *)
(* HTTPErrorHandler the Server installed at line 58.                       *)
Exchange(route, h, hc, dbg) ==
    LET tr == IF h.err = NoErr
              THEN Translated(h.resp, <<>>, 0)
              ELSE httpErrorHandler(h.err, h.resp, dbg)
    IN [route |-> route, err |-> h.err, pre |-> h.resp, debug |-> dbg,
        resp |-> tr.resp, trace |-> tr.trace, code |-> tr.code,
        calls |-> h.calls, hc |-> hc]

NoExchange ==
    [route |-> "none", err |-> NoErr, pre |-> NewResponse, debug |-> FALSE,
     resp |-> NewResponse, trace |-> <<>>, code |-> 0, calls |-> 0,
     hc |-> "none"]

(* What a route handler wrote when it wrote before returning its error. *)
HandlerChunk == Chunk("handler", 0, 0)

HandlerResponses == {NewResponse, Write(NewResponse, HandlerChunk)}

----------------------------------------------------------------------------
(* Request handling: state and actions.                                    *)

InitReq ==
    /\ debug = FALSE
    /\ hcFunc \in {"nil", "ok", "fail"}
    /\ last = NoExchange
    /\ prev = NoExchange

Record(x) ==
    /\ last' = x
    /\ prev' = last

(* New(config): a Server over a fresh echo instance (Debug off) whose      *)
(* health route closes over config.HealthCheck.                            *)
New(hc) ==
    /\ hcFunc # hc
    /\ hcFunc' = hc
    /\ debug' = FALSE
    /\ UNCHANGED <<last, prev, lifeVars>>

(* s.Echo().Debug = b: the flag the translator reads at line 120. *)
SetDebug(b) ==
    /\ debug # b
    /\ debug' = b
    /\ UNCHANGED <<hcFunc, last, prev, lifeVars>>

(* A route (or the router itself, for 404 and 405) returns err, having     *)
(* written the response r or not.                                          *)
RouteRequest(err, r) ==
    /\ Record(Exchange("route", Handled(r, err, 0), "none", debug))
    /\ UNCHANGED <<debug, hcFunc, lifeVars>>

(* A handler panics with text m: mw.Recover (line 43) recovers the panic   *)
(* and hands it to the translator as an error of no known type.            *)
PanicRequest(m, r) ==
    /\ Record(Exchange("panic", Handled(r, OtherError(m), 0), "none", debug))
    /\ UNCHANGED <<debug, hcFunc, lifeVars>>

(* GET /admin/health *)
HealthRequest(m) ==
    /\ Record(Exchange("health", makeHealthCheck(hcFunc, NewResponse, m),
                       hcFunc, debug))
    /\ UNCHANGED <<debug, hcFunc, lifeVars>>

NextReq ==
    \/ \E hc \in {"nil", "ok", "fail"} : New(hc)
    \/ \E b \in BOOLEAN : SetDebug(b)
    \/ \E err \in Errors, r \in HandlerResponses : RouteRequest(err, r)
    \/ \E m \in Msgs, r \in HandlerResponses : PanicRequest(m, r)
    \/ \E m \in Msgs : HealthRequest(m)

----------------------------------------------------------------------------
(* Lifecycle.                                                              *)
(*                                                                         *)
(* g is the state of the graceful server s.g:                              *)
(*   "nil"       Start was never called                                    *)
(*   "bindfail"  ListenAndServe returned at once, the address not bound    *)
(*   "serving"   listening and serving                                     *)
(*   "hook"      interrupted, BeforeShutdown (the ShutdownFunc) running    *)
(*   "closing"   listener closed, the drain timer not armed yet            *)
(*   "draining"  waiting for the in-flight request or for the timer        *)
(*   "stopped"   shutdown complete, Start has returned                     *)
(* t is the state of the test server s.t: "nil", "active" or "closed";     *)
(* orphans counts test servers a later StartTest left running.             *)
(* Time is counted in seconds.                                             *)

(* Stop passes time.Second * 5 to the graceful server. *)
StopGrace == 5

InitLife ==
    /\ cTimeout \in 0..MaxTimeout
    /\ cHook \in BOOLEAN
    /\ g = "nil"
    /\ gTimeout = 0
    /\ interrupt = "none"
    /\ interrupted = FALSE
    /\ trigger = "none"
    /\ hookState = "idle"
    /\ hookCalls = 0
    /\ t = "nil"
    /\ orphans = 0
    /\ conn = "none"
    /\ remaining = 0
    /\ remAtDrain = 0
    /\ deadline = 0
    /\ elapsed = 0

testVars == <<t, orphans>>
connVars == <<conn, remaining>>
confVars == <<cTimeout, cHook>>

(* Start: a new graceful.Server with Timeout and BeforeShutdown from the   *)
(* Config, then ListenAndServe.  Start blocks until shutdown completes,    *)
(* so it is called again only after it returned.                           *)
Start(bound) ==
    /\ g \in {"nil", "bindfail", "stopped"}
    /\ g' = IF bound THEN "serving" ELSE "bindfail"
    /\ gTimeout' = cTimeout
    /\ interrupt' = "none"
    /\ interrupted' = FALSE
    /\ trigger' = "none"
    /\ hookState' = "idle"
    /\ hookCalls' = 0
    /\ conn' = "none"
    /\ remaining' = 0
    /\ remAtDrain' = 0
    /\ deadline' = 0
    /\ elapsed' = 0
    /\ UNCHANGED <<confVars, testVars, reqVars>>

(* StartTest: s.t = httptest.NewServer(s.e); a test server s.t referred to *)
(* before keeps running, unreferenced.                                     *)
StartTest ==
    /\ t = "active" => orphans < MaxOrphans
    /\ orphans' = IF t = "active" THEN orphans + 1 ELSE orphans
    /\ t' = "active"
    /\ UNCHANGED <<confVars, g, gTimeout, interrupt, interrupted, trigger,
                   hookState, hookCalls, connVars, remAtDrain, deadline,
                   elapsed, reqVars>>

(* StopTest: s.t.Close(); s.t must not be nil. *)
StopTest ==
    /\ t # "nil"
    /\ t' = "closed"
    /\ UNCHANGED <<confVars, g, gTimeout, interrupt, interrupted, trigger,
                   hookState, hookCalls, orphans, connVars, remAtDrain,
                   deadline, elapsed, reqVars>>

(* Stop: s.g.Stop(5s).  The graceful server takes its stop lock, replaces  *)
(* its Timeout by the argument and sends itself an interrupt (the channel  *)
(* holds one; a second is dropped).  While the drain timer runs the lock   *)
(* is held by the shutdown, so Stop waits until the shutdown is over.      *)
Stop ==
    /\ g \notin {"nil", "draining"}
    /\ gTimeout' = StopGrace
    /\ interrupt' = IF interrupt = "none" THEN "stop" ELSE interrupt
    /\ UNCHANGED <<confVars, g, interrupted, trigger, hookState, hookCalls,
                   testVars, connVars, remAtDrain, deadline, elapsed,
                   reqVars>>

(* An external SIGINT or SIGTERM, delivered to the same channel. *)
Signal ==
    /\ g \in {"serving", "hook", "closing", "draining", "stopped"}
    /\ interrupt = "none"
    /\ interrupt' = "signal"
    /\ UNCHANGED <<confVars, g, gTimeout, interrupted, trigger, hookState,
                   hookCalls, testVars, connVars, remAtDrain, deadline,
                   elapsed, reqVars>>

(* The interrupt loop without its test of Interrupted: every interrupt     *)
(* starts the shutdown sequence.                                           *)
HandleInterruptEvery ==
    /\ interrupt # "none"
    /\ g \in {"serving", "closing", "draining", "stopped"}
    /\ interrupt' = "none"
    /\ interrupted' = TRUE
    /\ trigger' = interrupt
    /\ IF cHook
       THEN /\ g' = "hook"
            /\ hookState' = "running"
            /\ hookCalls' = hookCalls + 1
       ELSE /\ g' = "closing"
            /\ UNCHANGED <<hookState, hookCalls>>
    /\ UNCHANGED <<confVars, gTimeout, testVars, connVars, remAtDrain,
                   deadline, elapsed, reqVars>>

(* The interrupt loop of the graceful server takes one interrupt.  The     *)
(* first starts the shutdown sequence: BeforeShutdown when configured,     *)
(* then the listener is closed.  A later one is only logged.               *)
HandleInterrupt ==
    /\ interrupt # "none"
    /\ g \in {"serving", "closing", "draining", "stopped"}
    /\ interrupt' = "none"
    /\ IF interrupted
       THEN UNCHANGED <<g, interrupted, trigger, hookState, hookCalls>>
       ELSE /\ interrupted' = TRUE
            /\ trigger' = interrupt
            /\ IF cHook
               THEN /\ g' = "hook"
                    /\ hookState' = "running"
                    /\ hookCalls' = hookCalls + 1
               ELSE /\ g' = "closing"
                    /\ UNCHANGED <<hookState, hookCalls>>
    /\ UNCHANGED <<confVars, gTimeout, testVars, connVars, remAtDrain,
                   deadline, elapsed, reqVars>>

(* BeforeShutdown returns; the interrupt loop closes the listener. *)
HookReturn ==
    /\ g = "hook"
    /\ hookState = "running"
    /\ hookState' = "done"
    /\ g' = "closing"
    /\ UNCHANGED <<confVars, gTimeout, interrupt, interrupted, trigger,
                   hookCalls, testVars, connVars, remAtDrain, deadline,
                   elapsed, reqVars>>

(* Serve returns from the closed listener and the shutdown begins: it      *)
(* reads Timeout under the stop lock and, when it is positive, arms the    *)
(* timer; with nothing in flight the shutdown is complete at once.         *)
BeginDrain ==
    /\ g = "closing"
    /\ deadline' = gTimeout
    /\ elapsed' = 0
    /\ remAtDrain' = IF conn = "open" THEN remaining ELSE 0
    /\ g' = IF conn = "open" THEN "draining" ELSE "stopped"
    /\ UNCHANGED <<confVars, gTimeout, interrupt, interrupted, trigger,
                   hookState, hookCalls, testVars, connVars, reqVars>>

(* A connection is accepted and its request will run d seconds. *)
Accept(d) ==
    /\ g \in {"serving", "hook"}
    /\ conn # "open"
    /\ conn' = "open"
    /\ remaining' = d
    /\ UNCHANGED <<confVars, g, gTimeout, interrupt, interrupted, trigger,
                   hookState, hookCalls, testVars, remAtDrain, deadline,
                   elapsed, reqVars>>

(* One second passes for the request in flight and for the drain timer. *)
Tick ==
    /\ conn = "open"
    /\ remaining > 0
    /\ g = "draining" => (deadline = 0 \/ elapsed < deadline)
    /\ remaining' = remaining - 1
    /\ elapsed' = IF g = "draining" THEN elapsed + 1 ELSE elapsed
    /\ UNCHANGED <<confVars, g, gTimeout, interrupt, interrupted, trigger,
                   hookState, hookCalls, testVars, conn, remAtDrain,
                   deadline, reqVars>>

(* The request in flight completes; a draining server is then done. *)
Complete ==
    /\ conn = "open"
    /\ remaining = 0
    /\ conn' = "done"
    /\ g' = IF g = "draining" THEN "stopped" ELSE g
    /\ UNCHANGED <<confVars, gTimeout, interrupt, interrupted, trigger,
                   hookState, hookCalls, testVars, remaining, remAtDrain,
                   deadline, elapsed, reqVars>>

(* The drain timer fires: the connections left are closed. *)
Kill ==
    /\ g = "draining"
    /\ conn = "open"
    /\ deadline > 0
    /\ elapsed >= deadline
    /\ conn' = "killed"
    /\ g' = "stopped"
    /\ UNCHANGED <<confVars, gTimeout, interrupt, interrupted, trigger,
                   hookState, hookCalls, testVars, remaining, remAtDrain,
                   deadline, elapsed, reqVars>>

NextLife ==
    \/ \E bound \in BOOLEAN : Start(bound)
    \/ StartTest
    \/ StopTest
    \/ Stop
    \/ Signal
    \/ HandleInterrupt
    \/ HookReturn
    \/ BeginDrain
    \/ \E d \in 1..MaxDur : Accept(d)
    \/ Tick
    \/ Complete
    \/ Kill

----------------------------------------------------------------------------
(* The specifications.  Each keeps the other part in its constructed       *)
(* state.                                                                  *)

LifeIdle ==
    /\ InitLife
    /\ cTimeout = 0
    /\ cHook = FALSE

Init == InitReq /\ LifeIdle

Next == NextReq

Spec == Init /\ [][Next]_vars

ReqIdle ==
    /\ InitReq
    /\ hcFunc = "nil"

InitL == ReqIdle /\ InitLife

SpecLife == InitL /\ [][NextLife]_vars

----------------------------------------------------------------------------
(* Properties of request handling, checked under Spec.                     *)

Exchanges == {last, prev}

Translating(x) == x.err # NoErr

IsWrite(e) == e.op \in {"JSON", "http.Error"}

IsLog(e) == e.op = "log.Error"

Writes(x) == SelectSeq(x.trace, IsWrite)

Logs(x) == SelectSeq(x.trace, IsLog)

Generic(x) ==
    /\ Translating(x)
    /\ x.err.type = "HTTPError"
    /\ x.err.code \notin {StatusNotFound, StatusMethodNotAllowed}
    /\ ~x.pre.Committed

(* The status each category of error is to be answered with. *)
CategoryStatus(err) ==
    IF err.type = "StatusError" THEN StatusBadRequest
    ELSE IF err.type = "ErrorResponse" THEN err.code
    ELSE IF err.type = "HTTPError" THEN err.code
    ELSE StatusInternalServerError

(* C1: a GET /admin/health served with a health-check callback that fails  *)
(* is answered 500, never 204.                                             *)
C1_FailingHealthCheckIs500 ==
    \A x \in Exchanges :
        (x.route = "health" /\ x.hc = "fail") =>
            x.resp.Status = StatusInternalServerError

(* C2: the status the translator decides on follows from the category of   *)
(* the error alone: 400 for a StatusError, the error's own status for an   *)
(* ErrorResponse, the error's code for an HTTPError (404 and 405 too), 500 *)
(* for any other error; exactly one category answers, so at most one       *)
(* response is written, and an uncommitted response gets that status.      *)
C2_StatusByCategory ==
    \A x \in Exchanges :
        Translating(x) =>
            /\ x.code = CategoryStatus(x.err)
            /\ Len(Writes(x)) <= 1
            /\ \A i \in 1..Len(Writes(x)) :
                   Writes(x)[i].code = CategoryStatus(x.err)
            /\ ~x.pre.Committed =>
                   /\ Len(Writes(x)) = 1
                   /\ x.resp.Status = CategoryStatus(x.err)

C2_Witness ==
    /\ last.err.type = "StatusError"
    /\ last.err.code # StatusBadRequest
    /\ ~last.pre.Committed
    /\ last.resp.Status = StatusBadRequest
    /\ prev.err.type = "ErrorResponse"
    /\ ~prev.pre.Committed
    /\ prev.resp.Status = prev.err.code

(* C3 as stated: for an HTTPError of a code other than 404 and 405, with   *)
(* the debug flag off the body is the status text of the code and two      *)
(* errors of one code and different messages get the same response; the    *)
(* error's message is in the body only with the debug flag on.             *)
C3_BodyIsStatusTextUnlessDebug ==
    /\ \A x \in Exchanges :
           (Generic(x) /\ ~x.debug) =>
               x.resp.body = <<StatusText(x.err.code)>>
    /\ (/\ Generic(last) /\ ~last.debug
        /\ Generic(prev) /\ ~prev.debug
        /\ last.err.code = prev.err.code) => last.resp = prev.resp
    /\ \A x \in Exchanges :
           (Generic(x) /\ x.resp.body = <<ErrorText(x.err)>>) => x.debug

(* C3 amended: for an HTTPError of a code other than 404 and 405 reaching  *)
(* the translator with an uncommitted response, the status is the error's  *)
(* code and the body is the error's own text, which carries its message,   *)
(* with the debug flag on or off; two such errors of one code and          *)
(* different messages get different bodies.                                *)
C3_BodyIsErrorText ==
    /\ \A x \in Exchanges :
           Generic(x) =>
               /\ x.resp.Status = x.err.code
               /\ x.resp.body = <<ErrorText(x.err)>>
               /\ x.resp.body[1].msg = x.err.msg
    /\ (/\ Generic(last)
        /\ Generic(prev)
        /\ last.err.code = prev.err.code
        /\ last.err.msg # prev.err.msg) => last.resp.body # prev.resp.body

C3_Witness ==
    /\ Generic(last) /\ ~last.debug
    /\ Generic(prev) /\ ~prev.debug
    /\ last.err.code = prev.err.code
    /\ last.err.msg # prev.err.msg
    /\ last.resp.body # prev.resp.body

(* C4: an error of no known type (a recovered panic included) reaching the *)
(* translator with an uncommitted response is answered 500, with the       *)
(* status text of 500 when the debug flag is off and the error's text when *)
(* it is on.                                                               *)
C4_UnknownErrorIs500 ==
    \A x \in Exchanges :
        (Translating(x) /\ x.err.type = "Other" /\ ~x.pre.Committed) =>
            /\ x.resp.Status = StatusInternalServerError
            /\ x.resp.body =
                   <<IF x.debug THEN ErrorText(x.err)
                     ELSE StatusText(StatusInternalServerError)>>

C4_Witness ==
    /\ last.route = "panic"
    /\ ~last.pre.Committed
    /\ last.debug
    /\ last.resp.body = <<ErrorText(last.err)>>
    /\ prev.route = "route"
    /\ prev.err.type = "Other"
    /\ ~prev.pre.Committed
    /\ ~prev.debug
    /\ prev.resp.body = <<StatusText(StatusInternalServerError)>>

(* C5: the translator writes nothing, status or body, to a response that   *)
(* is committed when it is invoked, whatever the category of the error.    *)
C5_NothingWrittenWhenCommitted ==
    \A x \in Exchanges :
        (Translating(x) /\ x.pre.Committed) =>
            /\ Len(Writes(x)) = 0
            /\ x.resp = x.pre

(* C8: GET /admin/health with no callback configured is answered 501 and   *)
(* calls no callback; with a callback that succeeds it is answered 204     *)
(* with an empty body.                                                     *)
C8_HealthWithoutFailure ==
    \A x \in Exchanges :
        x.route = "health" =>
            /\ x.hc = "nil" =>
                   /\ x.resp.Status = StatusNotImplemented
                   /\ x.calls = 0
            /\ x.hc = "ok" =>
                   /\ x.resp.Status = StatusNoContent
                   /\ x.resp.body = <<>>

C8_Witness ==
    /\ last.route = "health"
    /\ last.hc = "nil"
    /\ last.resp.Status = StatusNotImplemented
    /\ prev.route = "health"
    /\ prev.hc = "ok"
    /\ prev.calls = 1
    /\ prev.resp.Status = StatusNoContent

(* C10: the translator logs the error if and only if it is of no known     *)
(* type, once, and before it writes anything; a StatusError, an            *)
(* ErrorResponse or an HTTPError of any code is never logged.              *)
C10_LogsOnlyUnknown ==
    \A x \in Exchanges :
        Translating(x) =>
            /\ (Len(Logs(x)) > 0) <=> (x.err.type = "Other")
            /\ Len(Logs(x)) <= 1
            /\ \A i, j \in 1..Len(x.trace) :
                   (IsLog(x.trace[i]) /\ IsWrite(x.trace[j])) => i < j

C10_Witness ==
    /\ last.err.type = "Other"
    /\ Len(last.trace) = 2
    /\ IsLog(last.trace[1])
    /\ IsWrite(last.trace[2])
    /\ Generic(prev)
    /\ prev.err.code = StatusInternalServerError
    /\ Len(Logs(prev)) = 0

----------------------------------------------------------------------------
(* Properties of the lifecycle, checked under SpecLife.                    *)

ProdActive == g \in {"serving", "hook"}

TestActive == t = "active" \/ orphans > 0

Min(a, b) == IF a < b THEN a ELSE b

(* C6: in a shutdown sequence of a server started with Start, by a signal  *)
(* or by Stop, the configured ShutdownFunc is called exactly once, and the *)
(* call has returned before the listener is closed and draining begins and *)
(* before any connection is closed by force.                               *)
C6_HookOnceBeforeDrain ==
    cHook =>
        /\ hookCalls <= 1
        /\ g \in {"nil", "bindfail", "serving"} =>
               (hookCalls = 0 /\ hookState = "idle")
        /\ g = "hook" => (hookCalls = 1 /\ hookState = "running")
        /\ g \in {"closing", "draining", "stopped"} =>
               (hookCalls = 1 /\ hookState = "done")
        /\ conn = "killed" => (hookCalls = 1 /\ hookState = "done")

C6_Witness ==
    /\ cHook
    /\ g = "stopped"
    /\ trigger = "stop"
    /\ conn = "killed"
    /\ hookCalls = 1
    /\ hookState = "done"

(* C7: when Stop started the shutdown with a request in flight that runs   *)
(* longer than the configured Timeout, the drain deadline is the Timeout,  *)
(* capped by the 5 seconds of Stop: the connection is closed by force and  *)
(* the shutdown is complete within the Timeout.                            *)
C7_StopDrainsWithinTimeout ==
    (/\ g = "stopped"
     /\ trigger = "stop"
     /\ cTimeout > 0
     /\ remAtDrain > cTimeout) =>
        /\ deadline = Min(cTimeout, StopGrace)
        /\ conn = "killed"
        /\ elapsed <= cTimeout

(* C9: after any sequence of Start, StartTest, Stop and StopTest the       *)
(* production listener and a test listener are never both active.          *)
C9_OneServingMode == ~(ProdActive /\ TestActive)

====
